---------------------------- MODULE Spec2Model ----------------------------
(***************************************************************************)
(* Model of the incident-analysis pipeline of Backend/app/pipeline.py:     *)
(* GeminiLLM, PromptTemplates and IncidentAnalyzer.                        *)
(*                                                                         *)
(* Text is a sequence of one-character strings, so that formatting,        *)
(* stripping, splitting and the line parser are modelled by what they do.  *)
(* The literal blocks of the two prompt templates are single elements of   *)
(* such a sequence (they hold no placeholder and are never taken apart).   *)
(* The three external services (vector store, embedding provider,          *)
(* generative model) answer nondeterministically: each call either         *)
(* returns or raises.                                                      *)
(***************************************************************************)
EXTENDS Integers, Sequences, FiniteSets, TLC

VARIABLES
    store,      \* content of the "incidents" collection: sequence of documents
    op,         \* the operation that has just completed, "idle" between two calls
    arg,        \* its arguments
    ret,        \* its outcome: [raised, error, value]
    calls,      \* the steps and external calls it made, in order
    ingests     \* the completed ingest_incident calls, oldest first

vars == <<store, op, arg, ret, calls, ingests>>

---------------------------------------------------------------------------
(* Program constants *)

SIMILARITY_THRESHOLD == 5      \* 0.5, scores are counted in tenths
CHUNK_SIZE == 1000
CHUNK_OVERLAP == 200

(* Bounds of the model *)

MaxDocs == 4                   \* documents the collection holds at most
MaxK == 2                      \* largest k passed to a search
WordLen == 249                 \* length of one word of the long description
MaxPromptLen == 3              \* longest prompt handed directly to GeminiLLM.invoke
MaxValLen == 2                 \* longest field value of the round-trip records

---------------------------------------------------------------------------
(* Python values and string operations *)

\* None; not a text (its one element is not a character)
PyNone == <<"<None>">>

NoneText == <<"N","o","n","e">>

\* str(v) as the f-string applies it
str(v) == IF v = PyNone THEN NoneText ELSE v

\* the characters str.strip() removes
IsSpace(c) == c \in {" ", "\n", "\t"}

RECURSIVE lstrip(_)
lstrip(s) == IF s = <<>> THEN s
             ELSE IF IsSpace(Head(s)) THEN lstrip(Tail(s)) ELSE s

RECURSIVE rstrip(_)
rstrip(s) == IF s = <<>> THEN s
             ELSE IF IsSpace(s[Len(s)]) THEN rstrip(SubSeq(s, 1, Len(s) - 1)) ELSE s

strip(s) == rstrip(lstrip(s))

\* sub in text
Contains(text, sub) ==
    \E i \in 1..(Len(text) - Len(sub) + 1) : SubSeq(text, i, i + Len(sub) - 1) = sub

RECURSIVE Join(_, _)
Join(parts, sep) ==
    IF parts = <<>> THEN <<>>
    ELSE IF Len(parts) = 1 THEN parts[1]
    ELSE parts[1] \o sep \o Join(Tail(parts), sep)

MinOf(S) == CHOOSE m \in S : \A j \in S : m <= j

\* dict.get(key, default)
get(d, key, default) == IF key \in DOMAIN d THEN d[key] ELSE default

---------------------------------------------------------------------------
(* Canonical text of ingest_incident *)

L_INCIDENT_ID == <<"I","N","C","I","D","E","N","T"," ","I","D">>
L_TIMESTAMP == <<"T","I","M","E","S","T","A","M","P">>
L_CATEGORY == <<"C","A","T","E","G","O","R","Y">>
L_SEVERITY == <<"S","E","V","E","R","I","T","Y">>
L_DESCRIPTION == <<"D","E","S","C","R","I","P","T","I","O","N">>
L_ROOT_CAUSE == <<"R","O","O","T"," ","C","A","U","S","E">>
L_RESOLUTION == <<"R","E","S","O","L","U","T","I","O","N">>
L_IMPACT == <<"I","M","P","A","C","T">>
L_RESOLUTION_TIME_MINS ==
    <<"R","E","S","O","L","U","T","I","O","N"," ","T","I","M","E"," ","M","I","N","S">>

Unknown == <<"U","n","k","n","o","w","n">>

\* the lines of the f-string, in order: label, field, default of .get
ContentLines == <<
    [label |-> L_INCIDENT_ID,          field |-> "incident_id",          default |-> PyNone],
    [label |-> L_TIMESTAMP,            field |-> "timestamp",            default |-> PyNone],
    [label |-> L_CATEGORY,             field |-> "category",             default |-> PyNone],
    [label |-> L_SEVERITY,             field |-> "severity",             default |-> PyNone],
    [label |-> L_DESCRIPTION,          field |-> "description",          default |-> PyNone],
    [label |-> L_ROOT_CAUSE,           field |-> "root_cause",           default |-> Unknown],
    [label |-> L_RESOLUTION,           field |-> "resolution",           default |-> Unknown],
    [label |-> L_IMPACT,               field |-> "impact",               default |-> Unknown],
    [label |-> L_RESOLUTION_TIME_MINS, field |-> "resolution_time_mins", default |-> PyNone] >>

\* one line of the f-string: "LABEL: {incident.get(field, default)}"
ContentLine(incident, l) ==
    l.label \o <<":", " ">> \o str(get(incident, l.field, l.default))

\* content = f"""\nINCIDENT ID: ...\n...\nRESOLUTION TIME MINS: ...\n"""
FormatContent(incident) ==
    <<"\n">> \o Join([i \in 1..Len(ContentLines) |-> ContentLine(incident, ContentLines[i])],
                     <<"\n">>) \o <<"\n">>

---------------------------------------------------------------------------
(* RecursiveCharacterTextSplitter(chunk_size, chunk_overlap).split_text    *)
(* with its defaults: separators "\n\n", "\n", " ", "", the separator kept *)
(* at the start of each piece, chunks stripped.                            *)

Separators == << <<"\n","\n">>, <<"\n">>, <<" ">>, <<>> >>

\* start positions of the non-overlapping matches of sep in text, from `from` on
RECURSIVE re_matches(_, _, _)
re_matches(sep, text, from) ==
    LET cand == {i \in from..(Len(text) - Len(sep) + 1) :
                    SubSeq(text, i, i + Len(sep) - 1) = sep}
    IN  IF cand = {} THEN <<>>
        ELSE <<MinOf(cand)>> \o re_matches(sep, text, MinOf(cand) + Len(sep))

\* the pieces of text, each match of sep opening a new piece; no empty piece
split_text_with_regex(text, sep) ==
    LET m == re_matches(sep, text, 1)
        n == Len(m)
        first(j) == IF j = 1 THEN 1 ELSE m[j - 1]
        last(j)  == IF j = n + 1 THEN Len(text) ELSE m[j] - 1
        splits == IF sep = <<>>
                  THEN [i \in 1..Len(text) |-> <<text[i]>>]
                  ELSE [j \in 1..(n + 1) |-> SubSeq(text, first(j), last(j))]
    IN  SelectSeq(splits, LAMBDA s : s # <<>>)

\* the joined and stripped text of the pieces; <<>> stands for None
join_docs(docs, separator) == strip(Join(docs, separator))

\* the loop that drops pieces from the front of current_doc down to the overlap
RECURSIVE pop_overlap(_, _, _, _)
pop_overlap(current_doc, total, len, separator_len) ==
    IF \/ total > CHUNK_OVERLAP
       \/ /\ total + len + (IF Len(current_doc) > 0 THEN separator_len ELSE 0) > CHUNK_SIZE
          /\ total > 0
    THEN pop_overlap(Tail(current_doc),
                     total - (Len(current_doc[1])
                              + (IF Len(current_doc) > 1 THEN separator_len ELSE 0)),
                     len, separator_len)
    ELSE [current_doc |-> current_doc, total |-> total]

RECURSIVE merge_loop(_, _, _, _, _)
merge_loop(splits, separator, docs, current_doc, total) ==
    IF splits = <<>>
    THEN IF join_docs(current_doc, separator) # <<>>
         THEN Append(docs, join_docs(current_doc, separator)) ELSE docs
    ELSE LET d == Head(splits)
             sl == Len(separator)
             flush == /\ total + Len(d) + (IF Len(current_doc) > 0 THEN sl ELSE 0) > CHUNK_SIZE
                      /\ Len(current_doc) > 0
             doc == join_docs(current_doc, separator)
             docs1 == IF flush /\ doc # <<>> THEN Append(docs, doc) ELSE docs
             kept == IF flush THEN pop_overlap(current_doc, total, Len(d), sl)
                     ELSE [current_doc |-> current_doc, total |-> total]
             cur1 == Append(kept.current_doc, d)
         IN  merge_loop(Tail(splits), separator, docs1, cur1,
                        kept.total + Len(d) + (IF Len(cur1) > 1 THEN sl ELSE 0))

merge_splits(splits, separator) == merge_loop(splits, separator, <<>>, <<>>, 0)

RECURSIVE split_text_rec(_, _)
RECURSIVE split_loop(_, _, _, _)

\* the loop of _split_text over the pieces
split_loop(splits, new_separators, final_chunks, good_splits) ==
    IF splits = <<>>
    THEN IF good_splits # <<>> THEN final_chunks \o merge_splits(good_splits, <<>>)
         ELSE final_chunks
    ELSE LET s == Head(splits)
             flushed == IF good_splits # <<>>
                        THEN final_chunks \o merge_splits(good_splits, <<>>)
                        ELSE final_chunks
         IN  IF Len(s) < CHUNK_SIZE
             THEN split_loop(Tail(splits), new_separators, final_chunks, Append(good_splits, s))
             ELSE IF new_separators = <<>>
             THEN split_loop(Tail(splits), new_separators, Append(flushed, s), <<>>)
             ELSE split_loop(Tail(splits), new_separators,
                             flushed \o split_text_rec(s, new_separators), <<>>)

split_text_rec(text, separators) ==
    LET hits == {i \in 1..Len(separators) :
                    separators[i] = <<>> \/ Contains(text, separators[i])}
        i == IF hits = {} THEN Len(separators) ELSE MinOf(hits)
        separator == separators[i]
        new_separators == IF hits = {} \/ separator = <<>> THEN <<>>
                          ELSE SubSeq(separators, i + 1, Len(separators))
    IN  split_loop(split_text_with_regex(text, separator), new_separators, <<>>, <<>>)

split_text(text) == split_text_rec(text, Separators)

---------------------------------------------------------------------------
(* Records handed to ingest_incident *)

INC_001 == <<"I","N","C","-","0","0","1">>
INC_002 == <<"I","N","C","-","0","0","2">>
INC_003 == <<"I","N","C","-","0","0","3">>
Critical == <<"C","r","i","t","i","c","a","l">>
Database == <<"D","a","t","a","b","a","s","e">>
PoolExhaustion == <<"c","o","n","n","e","c","t","i","o","n"," ","p","o","o","l"," ",
                    "e","x","h","a","u","s","t","i","o","n">>

Word == [i \in 1..WordLen |-> "a"]
LongDescription == Join(<<Word, Word, Word, Word, Word>>, <<" ">>)

OnlyId == [incident_id |-> INC_001]
Scenario == [incident_id |-> INC_002, severity |-> Critical, category |-> Database,
             description |-> PoolExhaustion]
LongRecord == [incident_id |-> INC_003, severity |-> Critical, category |-> Database,
               description |-> LongDescription]

Incidents == {OnlyId, Scenario, LongRecord}

---------------------------------------------------------------------------
(* ingest_incident up to the vector-store write *)

\* the Document with severity and category taken from each other's field
Document_swapped(chunk, incident) ==
    [page_content |-> chunk,
     metadata |-> [incident_id |-> get(incident, "incident_id", PyNone),
                   severity    |-> get(incident, "category", PyNone),
                   category    |-> get(incident, "severity", PyNone)]]

\* the Document built for one chunk
Document(chunk, incident) ==
    [page_content |-> chunk,
     metadata |-> [incident_id |-> get(incident, "incident_id", PyNone),
                   severity    |-> get(incident, "severity", PyNone),
                   category    |-> get(incident, "category", PyNone)]]

\* docs = [Document(...) for chunk in chunks]
IngestDocs(incident) ==
    LET chunks == split_text(FormatContent(incident))
    IN  [i \in 1..Len(chunks) |-> Document(chunks[i], incident)]

\* add_documents that replaces the collection by the new batch
add_documents_overwrite(collection, docs) == docs

\* add_documents that keeps one copy of a text already stored
add_documents_dedup(collection, docs) ==
    collection \o SelectSeq(docs, LAMBDA d :
                    ~\E i \in 1..Len(collection) : collection[i].page_content = d.page_content)

\* the collection after vectorstore.add_documents(docs) returned
add_documents(collection, docs) == collection \o docs

\* what the embedding provider and the store answer to add_documents
AddOutcomes == {"ok", "EmbeddingError", "StoreError"}

\* ingest_incident whose handler reports success although the write raised
ingest_incident_true_on_error(collection, incident, answer) ==
    LET docs == IngestDocs(incident)
        call == [call |-> "add_documents", docs |-> docs, answer |-> answer]
    IN  [raised |-> FALSE, error |-> "", value |-> TRUE, calls |-> <<call>>,
         collection |-> IF answer = "ok" THEN add_documents(collection, docs) ELSE collection]

\* ingest_incident on `collection`, given the answer to the write: its outcome,
\* the calls it made and the collection it leaves
ingest_incident(collection, incident, answer) ==
    LET docs == IngestDocs(incident)
        call == [call |-> "add_documents", docs |-> docs, answer |-> answer]
    IN  IF docs # <<>>
        THEN IF answer = "ok"
             THEN [raised |-> FALSE, error |-> "", value |-> TRUE, calls |-> <<call>>,
                   collection |-> add_documents(collection, docs)]
             ELSE [raised |-> FALSE, error |-> "", value |-> FALSE, calls |-> <<call>>,
                   collection |-> collection]
        ELSE [raised |-> FALSE, error |-> "", value |-> FALSE, calls |-> <<>>,
              collection |-> collection]

---------------------------------------------------------------------------
(* search_incidents *)

Scores == {4, 5, 6}            \* 0.4, 0.5, 0.6

\* what similarity_search_with_score(query, k) can return on `collection`:
\* min(k, count) distinct documents with their scores, nearest first
RawResults(collection, k) ==
    LET n == IF k < Len(collection) THEN k ELSE Len(collection)
    IN  {r \in [1..n -> (1..Len(collection)) \X Scores] :
            /\ \A i, j \in 1..n : i < j => r[i][1] # r[j][1] /\ r[i][2] <= r[j][2]}

Pairs(collection, r) ==
    [i \in 1..Len(r) |-> [doc |-> collection[r[i][1]], score |-> r[i][2]]]

\* search_incidents without the fallback to the raw results
search_incidents_no_fallback(answer) ==
    IF answer.raised THEN <<>>
    ELSE IF answer.results = <<>> THEN <<>>
    ELSE LET filtered == SelectSeq(answer.results, LAMBDA p : p.score < SIMILARITY_THRESHOLD)
         IN  [i \in 1..Len(filtered) |-> filtered[i].doc]

\* search_incidents keeping the pairs at the threshold as well (<= for <)
search_incidents_le(answer) ==
    IF answer.raised THEN <<>>
    ELSE IF answer.results = <<>> THEN <<>>
    ELSE LET results == answer.results
             filtered == SelectSeq(results, LAMBDA p : p.score <= SIMILARITY_THRESHOLD)
             chosen == IF filtered # <<>> THEN filtered ELSE results
         IN  [i \in 1..Len(chosen) |-> chosen[i].doc]

\* search_incidents given the answer of the store: raised, or the (doc, score) pairs
search_incidents(answer) ==
    IF answer.raised THEN <<>>
    ELSE IF answer.results = <<>> THEN <<>>
    ELSE LET results == answer.results
             filtered == SelectSeq(results, LAMBDA p : p.score < SIMILARITY_THRESHOLD)
             chosen == IF filtered # <<>> THEN filtered ELSE results
         IN  [i \in 1..Len(chosen) |-> chosen[i].doc]

---------------------------------------------------------------------------
(* _format_docs and PromptTemplates *)

NoSimilar == <<"N","o"," ","s","i","m","i","l","a","r"," ","h","i","s","t","o","r","i","c","a","l"," ",
               "i","n","c","i","d","e","n","t","s"," ","f","o","u","n","d",".">>

\* _format_docs without the sentinel: the join alone
format_docs_join_only(docs) ==
    Join([i \in 1..Len(docs) |-> docs[i].page_content], <<"\n", "\n">>)

format_docs(docs) ==
    IF docs = <<>> THEN NoSimilar
    ELSE Join([i \in 1..Len(docs) |-> docs[i].page_content], <<"\n", "\n">>)

RootCauseHead == <<"\n", "You are a senior Site Reliability Engineer ... HISTORICAL INCIDENT DATA", "\n">>
RootCauseMid  == <<"\n", "\n", "CURRENT INCIDENT", "\n">>
RootCauseTail == <<"\n", "\n", "INSTRUCTIONS ... Insufficient historical data to determine root cause.", "\n">>

\* root_cause that hands the question alone to the generator
root_cause_question_only(context, question) == question

root_cause(context, question) ==
    RootCauseHead \o context \o RootCauseMid \o question \o RootCauseTail

PatternHead == <<"\n", "You are a reliability analyst ... HISTORICAL INCIDENT DATA", "\n", "\n">>
PatternMid  == <<"\n", "\n", "FOCUS QUESTION", "\n">>
PatternTail == <<"\n", "\n", "OUTPUT FORMAT ... If no meaningful pattern exists, explicitly state that.", "\n">>

pattern(context, question) ==
    PatternHead \o context \o PatternMid \o question \o PatternTail

---------------------------------------------------------------------------
(* GeminiLLM.invoke *)

EmptyPrompt == "ValueError: Empty prompt passed to Gemini"

\* what generate_content answers: a response text, or it raises
ModelTexts == { <<"o","k","\n">> }
ModelAnswers == {[raised |-> FALSE, text |-> t] : t \in ModelTexts}
                    \cup {[raised |-> TRUE, text |-> PyNone]}

\* the call of generate_content: its request and what the model answered
generate_content(prompt, answer) ==
    [call |-> "generate_content",
     contents |-> << [role |-> "user", parts |-> << [text |-> prompt] >>] >>,
     answer |-> answer]

\* invoke that rejects the empty prompt only (the .strip() test left out)
invoke_empty_only(prompt, answer) ==
    IF prompt = <<>>
    THEN [raised |-> TRUE, error |-> EmptyPrompt, value |-> PyNone, calls |-> <<>>]
    ELSE IF answer.raised
    THEN [raised |-> TRUE, error |-> "ModelError", value |-> PyNone,
          calls |-> <<generate_content(prompt, answer)>>]
    ELSE [raised |-> FALSE, error |-> "", value |-> answer.text,
          calls |-> <<generate_content(prompt, answer)>>]

invoke(prompt, answer) ==
    IF prompt = <<>> \/ strip(prompt) = <<>>
    THEN [raised |-> TRUE, error |-> EmptyPrompt, value |-> PyNone, calls |-> <<>>]
    ELSE IF answer.raised
    THEN [raised |-> TRUE, error |-> "ModelError", value |-> PyNone,
          calls |-> <<generate_content(prompt, answer)>>]
    ELSE [raised |-> FALSE, error |-> "", value |-> answer.text,
          calls |-> <<generate_content(prompt, answer)>>]

---------------------------------------------------------------------------
(* analyze_root_cause and analyze_patterns *)

similarity_search_with_score(query, k, answer) ==
    [call |-> "similarity_search_with_score", query |-> query, k |-> k, answer |-> answer]

analyze(kind, query, k, searchAnswer, modelAnswer) ==
    LET docs == search_incidents(searchAnswer)
        context == format_docs(docs)
        prompt == IF kind = "analyze_root_cause" THEN root_cause(context, query)
                  ELSE pattern(context, query)
        r == invoke(prompt, modelAnswer)
    IN  [raised |-> r.raised, error |-> r.error, value |-> r.value,
         calls |-> << similarity_search_with_score(query, k, searchAnswer),
                      [call |-> "_format_docs", docs |-> docs, context |-> context],
                      [call |-> "PromptTemplates", prompt |-> prompt] >> \o r.calls]

analyze_root_cause(query, k, searchAnswer, modelAnswer) ==
    analyze("analyze_root_cause", query, k, searchAnswer, modelAnswer)

analyze_patterns(query, k, searchAnswer, modelAnswer) ==
    analyze("analyze_patterns", query, k, searchAnswer, modelAnswer)

---------------------------------------------------------------------------
(* get_stats, parse_incident_string, get_incidents *)

\* get_stats given the answer of _collection.count()
get_stats(answer) ==
    IF answer.raised THEN [total_documents |-> 0]
    ELSE [total_documents |-> answer.count]

UpperCase == <<"A","B","C","D","E","F","G","H","I","J","K","L","M",
               "N","O","P","Q","R","S","T","U","V","W","X","Y","Z">>
LowerCase == <<"a","b","c","d","e","f","g","h","i","j","k","l","m",
               "n","o","p","q","r","s","t","u","v","w","x","y","z">>

\* the class [A-Z _]
InKeyClass(c) == c = " " \/ c = "_" \/ \E i \in 1..26 : UpperCase[i] = c

\* str.lower() and .replace(" ", "_") on one character
lower(c) == IF \E i \in 1..26 : UpperCase[i] = c
            THEN LowerCase[CHOOSE i \in 1..26 : UpperCase[i] = c] ELSE c
\* the key lowered only (the .replace(" ", "_") left out)
normalize_key_lower_only(k) == [i \in 1..Len(k) |-> lower(k[i])]

normalize_key(k) == [i \in 1..Len(k) |-> IF lower(k[i]) = " " THEN "_" ELSE lower(k[i])]

\* doc.split("\n"): the texts between the line breaks, empty ones included
split_lines(doc) ==
    LET m == re_matches(<<"\n">>, doc, 1)
        n == Len(m)
    IN  [j \in 1..(n + 1) |->
            SubSeq(doc, IF j = 1 THEN 1 ELSE m[j - 1] + 1, IF j = n + 1 THEN Len(doc) ELSE m[j] - 1)]

\* re.match(r"(?P<k>[A-Z _]+): (?P<v>.+)", line): the groups, or matched = FALSE
re_match(line) ==
    LET klen == CHOOSE n \in 0..Len(line) :
                    /\ \A i \in 1..n : InKeyClass(line[i])
                    /\ n = Len(line) \/ ~InKeyClass(line[n + 1])
    IN  IF /\ klen >= 1
           /\ Len(line) >= klen + 3
           /\ line[klen + 1] = ":"
           /\ line[klen + 2] = " "
        THEN [matched |-> TRUE, k |-> SubSeq(line, 1, klen), v |-> SubSeq(line, klen + 3, Len(line))]
        ELSE [matched |-> FALSE, k |-> <<>>, v |-> <<>>]

RECURSIVE parse_lines(_, _)
parse_lines(lines, incident) ==
    IF lines = <<>> THEN incident
    ELSE LET m == re_match(strip(Head(lines)))
         IN  parse_lines(Tail(lines),
                         IF m.matched THEN (normalize_key(m.k) :> m.v) @@ incident
                         ELSE incident)

parse_incident_string(doc) == parse_lines(split_lines(doc), <<>>)

\* get_incidents given the answer of vectorstore.get()
get_incidents(answer) ==
    IF answer.raised THEN <<>>
    ELSE [i \in 1..Len(answer.documents) |-> parse_incident_string(answer.documents[i])]

---------------------------------------------------------------------------
(* Inputs and the answers of the external services *)

Queries == { <<>>, <<" ">>,
             <<"d","a","t","a","b","a","s","e"," ","c","o","n","n","e","c","t","i","o","n","s"," ",
               "f","a","i","l","i","n","g">> }

\* the ways similarity_search_with_score(query, k) can end, and the answer of each
SearchChoices(collection, k) ==
    {<<"raise", <<>>>>} \cup {<<"return", r>> : r \in RawResults(collection, k)}

SearchAnswer(collection, choice) ==
    IF choice[1] = "raise" THEN [raised |-> TRUE, results |-> <<>>]
    ELSE [raised |-> FALSE, results |-> Pairs(collection, choice[2])]

CountAnswers(collection) ==
    {[raised |-> TRUE, count |-> 0], [raised |-> FALSE, count |-> Len(collection)]}

GetAnswers(collection) ==
    {[raised |-> TRUE, documents |-> <<>>],
     [raised |-> FALSE, documents |-> [i \in 1..Len(collection) |-> collection[i].page_content]]}

Outcome(r) == [raised |-> r.raised, error |-> r.error, value |-> r.value]

---------------------------------------------------------------------------
(* The pipeline as a state machine: one action per operation *)

Init ==
    /\ store = <<>>
    /\ op = "idle"
    /\ arg = <<>>
    /\ ret = [raised |-> FALSE, error |-> "", value |-> PyNone]
    /\ calls = <<>>
    /\ ingests = <<>>

Ingest(incident, answer) ==
    LET r == ingest_incident(store, incident, answer)
    IN  /\ Len(store) + Len(IngestDocs(incident)) <= MaxDocs
        /\ store' = r.collection
        /\ op' = "ingest_incident"
        /\ arg' = [incident |-> incident]
        /\ ret' = Outcome(r)
        /\ calls' = r.calls
        /\ ingests' = IF r.value
                      THEN Append(ingests, [incident |-> incident, before |-> Len(store),
                                            after |-> Len(r.collection)])
                      ELSE ingests

IngestIncident ==
    /\ op = "idle"
    /\ \E incident \in Incidents, answer \in AddOutcomes : Ingest(incident, answer)

SearchIncidents ==
    /\ op = "idle"
    /\ \E query \in Queries, k \in 1..MaxK :
        \E choice \in SearchChoices(store, k) :
            LET answer == SearchAnswer(store, choice)
            IN  /\ op' = "search_incidents"
                /\ arg' = [query |-> query, k |-> k]
                /\ ret' = [raised |-> FALSE, error |-> "", value |-> search_incidents(answer)]
                /\ calls' = <<similarity_search_with_score(query, k, answer)>>
                /\ UNCHANGED <<store, ingests>>

AnalyzeRootCause ==
    /\ op = "idle"
    /\ \E query \in Queries, k \in 1..MaxK, modelAnswer \in ModelAnswers :
        \E choice \in SearchChoices(store, k) :
            LET r == analyze_root_cause(query, k, SearchAnswer(store, choice), modelAnswer)
            IN  /\ op' = "analyze_root_cause"
                /\ arg' = [query |-> query, k |-> k]
                /\ ret' = Outcome(r)
                /\ calls' = r.calls
                /\ UNCHANGED <<store, ingests>>

AnalyzePatterns ==
    /\ op = "idle"
    /\ \E query \in Queries, k \in 1..MaxK, modelAnswer \in ModelAnswers :
        \E choice \in SearchChoices(store, k) :
            LET r == analyze_patterns(query, k, SearchAnswer(store, choice), modelAnswer)
            IN  /\ op' = "analyze_patterns"
                /\ arg' = [query |-> query, k |-> k]
                /\ ret' = Outcome(r)
                /\ calls' = r.calls
                /\ UNCHANGED <<store, ingests>>

GetStats ==
    /\ op = "idle"
    /\ \E answer \in CountAnswers(store) :
        /\ op' = "get_stats"
        /\ arg' = <<>>
        /\ ret' = [raised |-> FALSE, error |-> "", value |-> get_stats(answer)]
        /\ calls' = <<[call |-> "count", answer |-> answer]>>
        /\ UNCHANGED <<store, ingests>>

GetIncidents ==
    /\ op = "idle"
    /\ \E answer \in GetAnswers(store) :
        /\ op' = "get_incidents"
        /\ arg' = <<>>
        /\ ret' = [raised |-> FALSE, error |-> "", value |-> get_incidents(answer)]
        /\ calls' = <<[call |-> "get", answer |-> answer]>>
        /\ UNCHANGED <<store, ingests>>

\* the call returns to its caller; the core keeps nothing of it
Return ==
    /\ op # "idle"
    /\ op' = "idle"
    /\ arg' = <<>>
    /\ ret' = [raised |-> FALSE, error |-> "", value |-> PyNone]
    /\ calls' = <<>>
    /\ UNCHANGED <<store, ingests>>

Next ==
    \/ IngestIncident
    \/ SearchIncidents
    \/ AnalyzeRootCause
    \/ AnalyzePatterns
    \/ GetStats
    \/ GetIncidents
    \/ Return

Spec == Init /\ [][Next]_vars

---------------------------------------------------------------------------
(* GeminiLLM.invoke called on its own, on every short prompt *)

PromptChars == {" ", "\n", "\t", "a"}

Prompts == UNION {[1..n -> PromptChars] : n \in 0..MaxPromptLen}

InvokeGenerator ==
    /\ op = "idle"
    /\ \E prompt \in Prompts, answer \in ModelAnswers :
        LET r == invoke(prompt, answer)
        IN  /\ op' = "invoke"
            /\ arg' = [prompt |-> prompt]
            /\ ret' = Outcome(r)
            /\ calls' = r.calls
            /\ UNCHANGED <<store, ingests>>

NextGen == InvokeGenerator \/ Return

SpecGen == Init /\ [][NextGen]_vars

---------------------------------------------------------------------------
(* Listing after ingestion: one record written to the empty collection,    *)
(* then read back by get_incidents.  The records take every short value in *)
(* two of their fields, and a value that carries a line of its own.        *)

ValueChars == {"a", "A", " ", "\n", ":"}

ImpactLine == <<"x", "\n">> \o L_IMPACT \o <<":", " ", "y">>

Values == UNION {[1..n -> ValueChars] : n \in 0..MaxValLen} \cup {ImpactLine}

RoundTripIncidents ==
    {[incident_id |-> INC_001, description |-> d] : d \in Values}
        \cup {[incident_id |-> INC_001, impact |-> i, resolution_time_mins |-> t] :
                i \in Values, t \in {<<"4", "5">>, <<"4", "5", " ">>}}
        \cup {[description |-> d, root_cause |-> c] : d \in {<<"a">>, <<>>}, c \in Values}

IngestOne ==
    /\ op = "idle"
    /\ store = <<>>
    /\ \E incident \in RoundTripIncidents : Ingest(incident, "ok")

NextRoundTrip == IngestOne \/ GetIncidents \/ Return

SpecRoundTrip == Init /\ [][NextRoundTrip]_vars

---------------------------------------------------------------------------
(* Properties *)

OrchestratorOps ==
    {"analyze_root_cause", "analyze_patterns", "ingest_incident", "get_stats", "get_incidents"}

DocsOf(pairs) == [i \in 1..Len(pairs) |-> pairs[i].doc]

\* C1: whenever the vector store returns raw (doc, score) pairs to search_incidents,
\* the result is the docs of the pairs scoring strictly below 0.5, in raw order, if
\* there is such a pair (a pair scoring exactly 0.5 is left out); otherwise it is
\* all raw docs in raw order, which is empty when the raw sequence is empty.
C1_SearchFilter ==
    (op = "search_incidents" /\ ~calls[1].answer.raised) =>
        LET raw == calls[1].answer.results
            below == SelectSeq(raw, LAMBDA p : p.score < 5)
        IN  /\ below # <<>> => ret.value = DocsOf(below)
            /\ below = <<>> => ret.value = DocsOf(raw)
            /\ raw = <<>> => ret.value = <<>>

\* a search whose raw pairs score 0.4 and 0.5 returned the first document only
C1_Witness ==
    /\ op = "search_incidents"
    /\ ~calls[1].answer.raised
    /\ Len(calls[1].answer.results) = 2
    /\ calls[1].answer.results[1].score = 4
    /\ calls[1].answer.results[2].score = 5
    /\ ret.value = <<calls[1].answer.results[1].doc>>

\* C2: no Orchestrator operation lets a failure of an external service reach its
\* caller: the only error an operation raises is the empty-prompt validation error.
C2_OnlyValidationErrorPropagates ==
    (op \in OrchestratorOps /\ ret.raised) => ret.error = EmptyPrompt

\* C3: ingest_incident never raises; it returns false when the write (embedding
\* included) raised or when there is no chunk to write; it returns true only when
\* the one add_documents call carrying every chunk of the record returned, and
\* the batch is then the tail of the collection.
C3_IngestReportsBoolean ==
    op = "ingest_incident" =>
        /\ ~ret.raised
        /\ ret.value \in BOOLEAN
        /\ calls = <<>> => ret.value = FALSE
        /\ (calls # <<>> /\ calls[1].answer # "ok") => ret.value = FALSE
        /\ ret.value = TRUE =>
            /\ Len(calls) = 1
            /\ calls[1].call = "add_documents"
            /\ calls[1].answer = "ok"
            /\ Len(calls[1].docs) = Len(split_text(FormatContent(arg.incident)))
            /\ Len(calls[1].docs) >= 1
            /\ Len(store) >= Len(calls[1].docs)
            /\ SubSeq(store, Len(store) - Len(calls[1].docs) + 1, Len(store)) = calls[1].docs

\* an ingest whose embedding step raised returned false and wrote nothing
C3_Witness ==
    /\ op = "ingest_incident"
    /\ calls # <<>>
    /\ calls[1].answer = "EmbeddingError"
    /\ ret.value = FALSE
    /\ ~ret.raised

\* C4: GeminiLLM.invoke on a prompt that is empty or all whitespace raises the
\* validation error and calls the model not at all; on any other prompt it makes
\* exactly one generate_content call whose contents are the prompt as one user
\* message, and the text the model answers is returned as it is.
C4_InvokeValidatesFirst ==
    op = "invoke" =>
        IF \A i \in 1..Len(arg.prompt) : arg.prompt[i] \in {" ", "\n", "\t"}
        THEN /\ ret.raised
             /\ ret.error = "ValueError: Empty prompt passed to Gemini"
             /\ calls = <<>>
        ELSE /\ Len(calls) = 1
             /\ calls[1].call = "generate_content"
             /\ calls[1].contents = << [role |-> "user", parts |-> << [text |-> arg.prompt] >>] >>
             /\ ~calls[1].answer.raised => (~ret.raised /\ ret.value = calls[1].answer.text)

\* a prompt of two whitespace characters was rejected before any model call
C4_Witness ==
    /\ op = "invoke"
    /\ arg.prompt = <<" ", "\n">>
    /\ ret.raised
    /\ calls = <<>>

IsAnalysis == op \in {"analyze_root_cause", "analyze_patterns"}

\* C5: when the retrieval of an analysis yields no chunk (empty store, or the
\* vector-store query raised), the analysis goes on: the context is exactly the
\* sentinel "No similar historical incidents found.", the generator is invoked
\* once with the prompt rendered from the sentinel and the query, the text the
\* model answers is the result, and no error arises other than the model call's.
C5_EmptyRetrievalStillAnalyzes ==
    (IsAnalysis /\ calls[2].docs = <<>>) =>
        /\ calls[2].context = NoSimilar
        /\ calls[3].prompt = (IF op = "analyze_root_cause"
                              THEN RootCauseHead \o NoSimilar \o RootCauseMid \o arg.query \o RootCauseTail
                              ELSE PatternHead \o NoSimilar \o PatternMid \o arg.query \o PatternTail)
        /\ Len(calls) = 4
        /\ calls[4].call = "generate_content"
        /\ calls[4].contents[1].parts[1].text = calls[3].prompt
        /\ ~calls[4].answer.raised => (~ret.raised /\ ret.value = calls[4].answer.text)
        /\ ret.raised => calls[4].answer.raised

\* a root-cause analysis whose vector-store query raised on a non-empty store
\* returned the model's text
C5_Witness ==
    /\ op = "analyze_root_cause"
    /\ store # <<>>
    /\ calls[1].answer.raised
    /\ calls[2].context = NoSimilar
    /\ ~ret.raised
    /\ ret.value = calls[4].answer.text

SameRecordTwice(i) ==
    /\ i \in 1..(Len(ingests) - 1)
    /\ ingests[i].incident = ingests[i + 1].incident

\* C6 as stated: when the same record is ingested twice and both calls return
\* true, the document count after the second ingest is at least twice the count
\* after the first.
C6_SecondIngestDoubles ==
    \A i \in 1..(Len(ingests) - 1) :
        SameRecordTwice(i) => ingests[i + 1].after >= 2 * ingests[i].after

\* C6 amended: the second ingest of the same record adds as many documents as
\* the first did, at least one, on top of those of the first; the count doubles
\* when the store was empty before the first ingest.
C6_SecondIngestAddsAgain ==
    \A i \in 1..(Len(ingests) - 1) :
        SameRecordTwice(i) =>
            /\ ingests[i + 1].before = ingests[i].after
            /\ ingests[i + 1].after - ingests[i + 1].before = ingests[i].after - ingests[i].before
            /\ ingests[i].after - ingests[i].before >= 1
            /\ ingests[i].before = 0 => ingests[i + 1].after = 2 * ingests[i].after
            /\ Len(store) >= ingests[i + 1].after

\* the same record was ingested twice in a row into a store that held a document
C6_Witness ==
    \E i \in 1..(Len(ingests) - 1) :
        /\ SameRecordTwice(i)
        /\ ingests[i].before > 0
        /\ ingests[i + 1].after = ingests[i].after + 1

\* the keys of the listing, as the dashboard reads them
KeyText ==
    [incident_id |-> <<"i","n","c","i","d","e","n","t","_","i","d">>,
     timestamp |-> <<"t","i","m","e","s","t","a","m","p">>,
     category |-> <<"c","a","t","e","g","o","r","y">>,
     severity |-> <<"s","e","v","e","r","i","t","y">>,
     description |-> <<"d","e","s","c","r","i","p","t","i","o","n">>,
     root_cause |-> <<"r","o","o","t","_","c","a","u","s","e">>,
     resolution |-> <<"r","e","s","o","l","u","t","i","o","n">>,
     impact |-> <<"i","m","p","a","c","t">>,
     resolution_time_mins |-> <<"r","e","s","o","l","u","t","i","o","n","_","t","i","m","e","_","m","i","n","s">>]

\* get_incidents returned the listing of a collection that holds the one chunk of
\* the one record ingested
RoundTripCase ==
    /\ op = "get_incidents"
    /\ ~calls[1].answer.raised
    /\ Len(ingests) = 1
    /\ Len(store) = 1

\* the text the f-string writes for the field of line l of that record
FieldText(l) == str(get(ingests[1].incident, l.field, l.default))

\* the line written for that field, up to its first line break
FieldLine(l) == split_lines(ContentLine(ingests[1].incident, l))[1]

NoLineBreak(incident) ==
    \A f \in DOMAIN incident : \A i \in 1..Len(incident[f]) : incident[f][i] # "\n"

\* C7 as stated: for every record, every field whose formatted line matches
\* 'KEY: value' is held by the reconstructed mapping, with the field's value as
\* text, under the normalized key.
C7_RoundTripExact ==
    RoundTripCase =>
        \A n \in 1..Len(ContentLines) :
            LET l == ContentLines[n]
            IN  re_match(strip(FieldLine(l))).matched =>
                    /\ KeyText[l.field] \in DOMAIN ret.value[1]
                    /\ ret.value[1][KeyText[l.field]] = FieldText(l)

\* C7 amended: for every record stored as one chunk whose values hold no line
\* break, a field whose value text is not all whitespace (its line matches
\* 'KEY: value') is held under the normalized key with its value text less its
\* trailing whitespace; a field whose value text is empty or all whitespace
\* contributes no key; the mapping has no other key.
C7_RoundTripStripped ==
    (RoundTripCase /\ NoLineBreak(ingests[1].incident)) =>
        /\ \A n \in 1..Len(ContentLines) :
            LET l == ContentLines[n]
                blank == \A i \in 1..Len(FieldText(l)) : FieldText(l)[i] \in {" ", "\n", "\t"}
            IN  IF blank
                THEN KeyText[l.field] \notin DOMAIN ret.value[1]
                ELSE /\ KeyText[l.field] \in DOMAIN ret.value[1]
                     /\ ret.value[1][KeyText[l.field]] = rstrip(FieldText(l))
        /\ DOMAIN ret.value[1] \subseteq {KeyText[ContentLines[n].field] : n \in 1..Len(ContentLines)}

\* the record with description "a " and no impact was listed with description
\* "a", impact "Unknown" and incident_id "INC-001"
C7_Witness ==
    /\ RoundTripCase
    /\ ingests[1].incident = [incident_id |-> INC_001, description |-> <<"a", " ">>]
    /\ ret.value[1][KeyText["description"]] = <<"a">>
    /\ ret.value[1][KeyText["impact"]] = Unknown
    /\ ret.value[1][KeyText["incident_id"]] = INC_001

\* the value of a field of the record, None when the record lacks it
FieldOrNone(incident, f) == IF f \in DOMAIN incident THEN incident[f] ELSE PyNone

\* C8: ingest_incident on a record with only incident_id populated, the services
\* responding, returns true and writes at least one chunk; every chunk handed to
\* the store for a record carries exactly that record's incident_id, severity
\* and category (None where the record has none) in its metadata.
C8_ChunkMetadata ==
    op = "ingest_incident" =>
        /\ \A n \in 1..Len(calls) : \A i \in 1..Len(calls[n].docs) :
              calls[n].docs[i].metadata =
                  [incident_id |-> FieldOrNone(arg.incident, "incident_id"),
                   severity    |-> FieldOrNone(arg.incident, "severity"),
                   category    |-> FieldOrNone(arg.incident, "category")]
        /\ (DOMAIN arg.incident = {"incident_id"} /\ calls # <<>> /\ calls[1].answer = "ok") =>
              /\ ret.value = TRUE
              /\ Len(calls[1].docs) >= 1
              /\ store[Len(store)] = calls[1].docs[Len(calls[1].docs)]
        /\ DOMAIN arg.incident = {"incident_id"} => calls # <<>>

\* the record holding only incident_id INC-001 was ingested: true, one chunk
\* whose metadata holds INC-001 and no severity and no category
C8_Witness ==
    /\ op = "ingest_incident"
    /\ arg.incident = [incident_id |-> INC_001]
    /\ ret.value = TRUE
    /\ store[Len(store)].metadata = [incident_id |-> INC_001, severity |-> PyNone, category |-> PyNone]

\* the context section of a root-cause prompt rendered for `query`
ContextOf(prompt, query) ==
    SubSeq(prompt, Len(RootCauseHead) + 1,
           Len(prompt) - Len(RootCauseTail) - Len(query) - Len(RootCauseMid))

\* analyze_root_cause ran on a store holding the chunks of one ingested record
OneRecordAnalysis ==
    /\ op = "analyze_root_cause"
    /\ Len(ingests) = 1
    /\ arg.k >= 1

\* search, then context, then prompt, then one generator invocation with that prompt
AnalysisOrder ==
    /\ Len(calls) = 4
    /\ calls[1].call = "similarity_search_with_score"
    /\ calls[2].call = "_format_docs"
    /\ calls[3].call = "PromptTemplates"
    /\ calls[4].call = "generate_content"
    /\ calls[4].contents[1].parts[1].text = calls[3].prompt
    /\ ContextOf(calls[3].prompt, arg.query) = calls[2].context

\* C9 as stated: after one record was ingested into the empty store, any
\* analyze_root_cause(query, k >= 1) searches, renders and invokes the generator
\* once, in that order, and the context section of the prompt contains the
\* record's incident_id.
C9_PromptHoldsIncidentId ==
    OneRecordAnalysis =>
        /\ AnalysisOrder
        /\ Contains(ContextOf(calls[3].prompt, arg.query),
                    str(FieldOrNone(ingests[1].incident, "incident_id")))

\* C9 amended: the order holds for every such call; the context section contains
\* the record's incident_id when the vector-store query returned and the record
\* was stored as a single chunk, whatever the score of that chunk.
C9_SingleChunkPromptHoldsIncidentId ==
    OneRecordAnalysis =>
        /\ AnalysisOrder
        /\ (~calls[1].answer.raised /\ Len(store) = 1) =>
              Contains(ContextOf(calls[3].prompt, arg.query),
                       str(FieldOrNone(ingests[1].incident, "incident_id")))

\* the scenario record, stored as one chunk, was retrieved with score 0.6 (not
\* below the threshold) and its id INC-002 is in the context of the prompt
C9_Witness ==
    /\ OneRecordAnalysis
    /\ ingests[1].incident = Scenario
    /\ ~calls[1].answer.raised
    /\ calls[1].answer.results[1].score = 6
    /\ Contains(calls[2].context, INC_002)
    /\ Len(calls) = 4

IsPrefix(s, t) == Len(s) <= Len(t) /\ SubSeq(t, 1, Len(s)) = s

\* C10: the stored corpus is append-only: search_incidents, analyze_root_cause,
\* analyze_patterns, get_stats and get_incidents leave the collection as it is,
\* whether they succeed or fail, and ingest_incident only appends; no step
\* changes or removes a stored document, and the count never decreases.
C10_AppendOnly ==
    [][ /\ IsPrefix(store, store')
        /\ Len(store') >= Len(store)
        /\ op' \in {"search_incidents", "analyze_root_cause", "analyze_patterns",
                    "get_stats", "get_incidents"} => store' = store
        /\ op' = "ingest_incident" =>
              (store' = store \/ (ret'.value = TRUE /\ store' = store \o calls'[1].docs)) ]_vars

\* a second record was appended to a store that already held documents
C10_Witness ==
    /\ op = "ingest_incident"
    /\ ret.value = TRUE
    /\ Len(ingests) = 2
    /\ ingests[2].before >= 1
    /\ SubSeq(store, 1, ingests[2].before) # <<>>
    /\ Len(store) = ingests[2].after

\* C11: the empty-prompt validation error cannot be reached through
\* analyze_root_cause or analyze_patterns: for every query, the empty and the
\* whitespace-only one included, and every retrieval outcome, the rendered prompt
\* holds a character that is not whitespace, the operation does not fail with the
\* validation error, and the generate_content call is made.
C11_ValidationErrorUnreachable ==
    IsAnalysis =>
        /\ Len(calls) = 4
        /\ \E i \in 1..Len(calls[3].prompt) : calls[3].prompt[i] \notin {" ", "\n", "\t"}
        /\ ret.error # "ValueError: Empty prompt passed to Gemini"
        /\ calls[4].call = "generate_content"
        /\ calls[4].contents[1].parts[1].text = calls[3].prompt

\* a pattern analysis with a whitespace-only query whose vector-store query
\* raised went on to the model call and returned its text
C11_Witness ==
    /\ op = "analyze_patterns"
    /\ arg.query = <<" ">>
    /\ calls[1].answer.raised
    /\ Len(calls) = 4
    /\ calls[4].call = "generate_content"
    /\ ~ret.raised

=============================================================================
